---- MODULE Spec2Model ----
(***************************************************************************)
(* Model of convert.py: the conversion of a TEI personography into an      *)
(* agents csv and a relationships csv.                                     *)
(*                                                                         *)
(* Python strings are sequences of one-character strings, so that          *)
(* str.split() and str.title() are computed and not assumed.  Python's     *)
(* insertion-ordered dict is a sequence of <<key, value>> entries with     *)
(* pairwise distinct keys.                                                 *)
(***************************************************************************)
EXTENDS Integers, Sequences, FiniteSets, TLC

(***************************************************************************)
(* Bounds and input sets.                                                  *)
(***************************************************************************)
\* The number of person elements of the first listPerson of a document.
MaxPersons == 2

\* Python's None, a value no character sequence equals.
None == <<"None">>

Whitespace == {" ", "\t", "\n"}

\* xml:id of the k-th person of the document.
XmlIds == << <<"a">>, <<"b">>, <<"c">>, <<"d">> >>

\* Values of the name attribute of a relation element.
n_sibling == <<"s", "i", "b", "l", "i", "n", "g">>
n_dummy == <<"d", "u", "m", "m", "y">>
n_1stCousin == <<"1", "s", "t", "C", "o", "u", "s", "i", "n">>
Names == {n_sibling, n_dummy, n_1stCousin}
n_halfSibling == <<"h", "a", "l", "f", "S", "i", "b", "l", "i", "n", "g">>

\* Values of the mutual, active and passive attributes of a relation element.
v_a == <<"a">>
v_b == <<"b">>
v_c == <<"c">>
v_ab == <<"a", " ", "b">>
v_ba == <<"b", " ", "a">>
v_abc == <<"a", " ", "b", " ", "c">>
v_aba == <<"a", " ", "b", " ", " ", "a">>
v_hash_ab == <<"#", "a", " ", "#", "b">>
v_hash_a == <<"#", "a">>
v_hash_b == <<"#", "b">>

\* The relation elements a person may hold (attrib of each, as a function
\* from the attribute names present to their values).
MutualRelations ==
    {[name |-> n, mutual |-> m] : n \in Names, m \in {v_abc, v_ba}}
      \cup {[name |-> n_sibling, mutual |-> m] : m \in {v_aba, v_hash_ab}}
      \cup {[mutual |-> v_abc]}

DirectedRelations ==
    {[name |-> n, active |-> x[1], passive |-> x[2]] :
        n \in Names, x \in {<<v_a, v_b>>, <<v_b, v_a>>}}
      \cup {[name |-> n_sibling, active |-> v_ab, passive |-> v_c],
            [name |-> n_sibling, active |-> v_hash_a, passive |-> v_hash_b],
            [active |-> v_a, passive |-> v_b],
            [name |-> n_halfSibling, active |-> v_a, passive |-> v_b]}

OtherRelations ==
    {[name |-> n_sibling],
     [name |-> n_sibling, active |-> v_a],
     [name |-> n_sibling, mutual |-> v_ba, active |-> v_a, passive |-> v_c]}

Relations == MutualRelations \cup DirectedRelations \cup OtherRelations

\* The lists person.findall(".../relation") may return: none, one relation,
\* or two of them.
FirstOfTwo ==
    {[mutual |-> v_abc],
     [name |-> n_sibling, active |-> v_a, passive |-> v_b],
     [name |-> n_sibling, mutual |-> v_ba]}

SecondOfTwo ==
    {[name |-> n_sibling, active |-> v_b, passive |-> v_a],
     [name |-> n_1stCousin, mutual |-> v_ba],
     [name |-> n_dummy, active |-> v_a, passive |-> v_b],
     [active |-> v_a, passive |-> v_b]}

RelationLists ==
    {<<>>} \cup {<<r>> : r \in Relations}
           \cup {<<r, s>> : r \in FirstOfTwo, s \in SecondOfTwo}

Documents ==
    UNION {[1..n -> RelationLists] : n \in 0..MaxPersons}

(***************************************************************************)
(* Python strings.                                                         *)
(***************************************************************************)
Lower == <<"a", "b", "c", "d", "e", "f", "g", "h", "i", "j", "k", "l", "m",
           "n", "o", "p", "q", "r", "s", "t", "u", "v", "w", "x", "y", "z">>
Upper == <<"A", "B", "C", "D", "E", "F", "G", "H", "I", "J", "K", "L", "M",
           "N", "O", "P", "Q", "R", "S", "T", "U", "V", "W", "X", "Y", "Z">>

IsLower(c) == \E n \in DOMAIN Lower : Lower[n] = c
IsUpper(c) == \E n \in DOMAIN Upper : Upper[n] = c
IsCased(c) == IsLower(c) \/ IsUpper(c)
ToUpper(c) == IF IsLower(c) THEN Upper[CHOOSE n \in DOMAIN Lower : Lower[n] = c] ELSE c
ToLower(c) == IF IsUpper(c) THEN Lower[CHOOSE n \in DOMAIN Upper : Upper[n] = c] ELSE c

\* str.title(): a cased character is upper-cased when the character before
\* it is not cased, and lower-cased otherwise.
title(s) ==
    [n \in DOMAIN s |->
        IF n > 1 /\ IsCased(s[n - 1]) THEN ToLower(s[n]) ELSE ToUpper(s[n])]

\* str.split(): the maximal runs of non-whitespace characters, in order.
RECURSIVE SplitFrom(_, _)
SplitFrom(s, cur) ==
    IF s = <<>> THEN (IF cur = <<>> THEN <<>> ELSE <<cur>>)
    ELSE IF Head(s) \in Whitespace
         THEN (IF cur = <<>> THEN <<>> ELSE <<cur>>) \o SplitFrom(Tail(s), <<>>)
         ELSE SplitFrom(Tail(s), Append(cur, Head(s)))

split(s) == SplitFrom(s, <<>>)

(***************************************************************************)
(* itertools.                                                              *)
(***************************************************************************)
\* combinations(xs, 2): the pairs of positions i < j, in lexicographic order.
RECURSIVE combinations2(_)
combinations2(xs) ==
    IF Len(xs) < 2 THEN <<>>
    ELSE [j \in 1..(Len(xs) - 1) |-> <<xs[1], xs[j + 1]>>] \o combinations2(Tail(xs))

\* product(xs, ys): every x with every y, the last position moving fastest.
product(xs, ys) ==
    [n \in 1..(Len(xs) * Len(ys)) |->
        <<xs[((n - 1) \div Len(ys)) + 1], ys[((n - 1) % Len(ys)) + 1]>>]

(***************************************************************************)
(* dict.                                                                   *)
(***************************************************************************)
Keys(d) == {d[n][1] : n \in DOMAIN d}

\* d[key]
Get(d, key) == d[CHOOSE n \in DOMAIN d : d[n][1] = key][2]

\* SetItem, were an assignment to move a key already present to the end.
SetItem_MovesToEnd(d, key, val) ==
    Append(SelectSeq(d, LAMBDA e : e[1] # key), <<key, val>>)

\* d[key] = val: a key already present keeps its position.
SetItem(d, key, val) ==
    IF key \in Keys(d)
    THEN [n \in DOMAIN d |-> IF d[n][1] = key THEN <<key, val>> ELSE d[n]]
    ELSE Append(d, <<key, val>>)

\* DictUnion, were the entries of d1 to win (d2 | d1 for d1 | d2, but for
\* the order).
RECURSIVE DictUnion_KeepsExisting(_, _)
DictUnion_KeepsExisting(d1, d2) ==
    IF d2 = <<>> THEN d1
    ELSE DictUnion_KeepsExisting(
            IF Head(d2)[1] \in Keys(d1) THEN d1 ELSE Append(d1, Head(d2)), Tail(d2))

\* d1 | d2: a copy of d1 updated with the entries of d2, in d2's order.
RECURSIVE DictUnion(_, _)
DictUnion(d1, d2) ==
    IF d2 = <<>> THEN d1
    ELSE DictUnion(SetItem(d1, Head(d2)[1], Head(d2)[2]), Tail(d2))

(***************************************************************************)
(* More of Python's strings.                                               *)
(***************************************************************************)
\* str.strip()
RECURSIVE lstrip(_)
lstrip(s) ==
    IF s # <<>> /\ Head(s) \in Whitespace THEN lstrip(Tail(s)) ELSE s

RECURSIVE rstrip(_)
rstrip(s) ==
    IF s # <<>> /\ s[Len(s)] \in Whitespace THEN rstrip(SubSeq(s, 1, Len(s) - 1)) ELSE s

strip(s) == rstrip(lstrip(s))

BR == <<"<", "b", "r", "/", ">">>

\* s.replace('\n', '<br/>')
RECURSIVE replace_newlines(_)
replace_newlines(s) ==
    IF s = <<>> THEN <<>>
    ELSE (IF Head(s) = "\n" THEN BR ELSE <<Head(s)>>) \o replace_newlines(Tail(s))

\* sep.join(xs)
RECURSIVE join(_, _)
join(sep, xs) ==
    IF xs = <<>> THEN <<>>
    ELSE IF Len(xs) = 1 THEN xs[1]
    ELSE xs[1] \o sep \o join(sep, Tail(xs))

CONCHAR == <<"$">>

(***************************************************************************)
(* The elements eval_to_str is given for the birth, death and note fields. *)
(***************************************************************************)
\* What an expression evaluates to, with its Python type.
NoneType == [type |-> "NoneType"]
Element(node) == [type |-> "Element", node |-> node]
List(items) == [type |-> "list", items |-> items]

\* The text of an element or its tail: None stands for no text.
Text(t) == IF t = None THEN <<>> ELSE t

\* birth and death elements: their attrib.
d_1800 == <<"1", "8", "0", "0">>
d_1756 == <<"1", "7", "5", "6", "-", "0", "5">>
DateAttribs ==
    UNION {[D -> {d_1800, d_1756}] : D \in SUBSET {"when", "notBefore", "notAfter"}}
DateNodes == {[attrib |-> a] : a \in DateAttribs}

\* note elements: attrib, text, child elements (their text and tail), tail.
t_bio == <<"b", "i", "o", "g", "r", "a", "p", "h", "i", "c", "a", "l">>
t_born == <<"B", "o", "r", "n", " ", "i", "n", "\n", "Y", "o", "r", "k", " ">>
t_uncertain == <<" ", "U", "n", "c", "e", "r", "t", "a", "i", "n">>
t_blank == <<"\n", " ", " ">>
t_see == <<"s", "e", "e">>
t_ref == <<" ", "r", "e", "f", " ">>
t_after == <<" ", "z", "\n">>
NoteAttribs == {[type |-> t_bio], [other |-> t_bio]}
NoteChildren ==
    {<<>>, <<[text |-> t_see, tail |-> t_ref]>>, <<[text |-> None, tail |-> None]>>}
Notes ==
    {[attrib |-> a, text |-> t, children |-> c, tail |-> l] :
        a \in NoteAttribs, t \in {None, t_blank, t_born, t_uncertain},
        c \in NoteChildren, l \in {None, t_blank, t_after}}
FirstNotes ==
    {[attrib |-> [type |-> t_bio], text |-> t, children |-> <<>>, tail |-> t_blank] :
        t \in {t_born, t_blank}}
      \cup {[attrib |-> [other |-> t_bio], text |-> t_born,
             children |-> <<[text |-> t_see, tail |-> t_ref]>>, tail |-> t_after]}
SecondNotes ==
    {[attrib |-> [other |-> t_bio], text |-> t, children |-> <<>>, tail |-> t_blank] :
        t \in {t_uncertain, None}}
      \cup {[attrib |-> [type |-> t_bio], text |-> t_uncertain,
             children |-> <<[text |-> t_see, tail |-> t_ref]>>, tail |-> None]}
NoteLists ==
    {<<>>} \cup {<<n>> : n \in Notes}
           \cup {<<n, m>> : n \in FirstNotes, m \in SecondNotes}

\* The expressions of AGT_MAP for the three fields, and what they may
\* evaluate to.
FieldInputs ==
    {<<e, Element(n)>> : e \in {"Birth Date", "Death Date"}, n \in DateNodes}
      \cup {<<e, NoneType>> : e \in {"Birth Date", "Death Date"}}
      \cup {<<"Research Notes", List(l)>> : l \in NoteLists}

(***************************************************************************)
(* handle_date.                                                            *)
(***************************************************************************)
TOKEN_HEAD == <<"[", " ", "|", "V", "E", "R", "=", "1", "|", "T", "Y", "P", "=", "p", "|", "T", "P", "Q", "=">>
TOKEN_MID == <<"|", "T", "A", "Q", "=">>
TOKEN_TAIL == <<"|", "D", "E", "T", "=", "0", "|", "C", "L", "D", "=", "G", "r", "e", "g", "o", "r", "i", "a", "n", "|", "S", "P", "F", "=", "0", "|", "E", "P", "F", "=", "0", " ", "]">>

\* handle_date, were the bounds tested before the exact date.
handle_date_BoundsFirst(node) ==
    LET att == node.attrib
    IN  IF "notBefore" \in DOMAIN att \/ "notAfter" \in DOMAIN att
        THEN LET TPQ == IF "notBefore" \in DOMAIN att THEN att.notBefore ELSE <<>>
                 TAQ == IF "notAfter" \in DOMAIN att THEN att.notAfter ELSE <<>>
             IN  TOKEN_HEAD \o TPQ \o TOKEN_MID \o TAQ \o TOKEN_TAIL
        ELSE IF "when" \in DOMAIN att THEN att.when
        ELSE <<>>

handle_date(node) ==
    LET att == node.attrib
    IN  IF "when" \in DOMAIN att
        THEN att.when
        ELSE IF "notBefore" \in DOMAIN att \/ "notAfter" \in DOMAIN att
             THEN LET TPQ == IF "notBefore" \in DOMAIN att THEN att.notBefore ELSE <<>>
                      TAQ == IF "notAfter" \in DOMAIN att THEN att.notAfter ELSE <<>>
                  IN  TOKEN_HEAD \o TPQ \o TOKEN_MID \o TAQ \o TOKEN_TAIL
             ELSE <<>>

(***************************************************************************)
(* handle_note.                                                            *)
(***************************************************************************)
\* etree.tostring(element, method='text', encoding='unicode') of the child
\* elements of a note: the text of each, then its tail.
RECURSIVE children_text(_)
children_text(children) ==
    IF children = <<>> THEN <<>>
    ELSE Text(Head(children).text) \o Text(Head(children).tail)
           \o children_text(Tail(children))

\* etree.tostring(note, method='text', encoding='unicode'): the text of the
\* note, its child elements, and (with_tail being True) the tail of the note.
tostring_text(note) ==
    Text(note.text) \o children_text(note.children) \o Text(note.tail)

\* _format_note
format_note(note) == replace_newlines(strip(tostring_text(note)))

\* _format_type
format_type(note) ==
    IF "type" \in DOMAIN note.attrib THEN note.attrib.type \o <<":", " ">> ELSE <<>>

\* _stringify_note
stringify_note(note) ==
    IF note.text # None /\ note.text # <<>> /\ strip(note.text) # <<>>
    THEN format_type(note) \o format_note(note)
    ELSE None

\* The truth value of what _stringify_note returns.
Truthy(str) == str # None /\ str # <<>>

handle_note(notelist) ==
    LET kept == SelectSeq(notelist, LAMBDA note : Truthy(stringify_note(note)))
    IN  join(CONCHAR, [n \in DOMAIN kept |-> stringify_note(kept[n])])

(***************************************************************************)
(* eval_to_str, for the birth, death and note expressions.                 *)
(***************************************************************************)
eval_to_str(e, output) ==
    IF output.type = "list"
    THEN (IF e = "Research Notes"
          THEN handle_note(output.items)
          ELSE join(CONCHAR, [n \in DOMAIN output.items |-> output.items[n].text]))
    ELSE IF output.type = "Element"
         THEN (IF e \in {"Birth Date", "Death Date"}
               THEN handle_date(output.node)
               ELSE output.node.text)
         ELSE <<>>

(***************************************************************************)
(* handle_relations.                                                       *)
(***************************************************************************)
IS == <<"i", "s">>
OF == <<"O", "f">>

\* convert_rel_type, were the name not title-cased.
convert_rel_type_NoTitle(name) ==
    IF name = n_1stCousin THEN <<"i", "s", "C", "o", "u", "s", "i", "n", "O", "f">>
    ELSE IF name = n_dummy THEN None
    ELSE IS \o name \o OF

\* _convert_rel_type
convert_rel_type(name) ==
    IF name = n_1stCousin THEN <<"i", "s", "C", "o", "u", "s", "i", "n", "O", "f">>
    ELSE IF name = n_dummy THEN None
    ELSE IS \o title(name) \o OF

\* RelKeys, were the inverse of a directed pair not looked up in rel_dict.
RelKeys_NoInverseCheck(rel, rel_dict) ==
    IF "mutual" \in DOMAIN rel
    THEN combinations2(split(rel.mutual))
    ELSE IF "active" \in DOMAIN rel /\ "passive" \in DOMAIN rel
         THEN product(split(rel.active), split(rel.passive))
         ELSE <<>>

\* The keys one relation element with a name stores in tmp_dict, in the
\* order of the assignments.
RelKeys(rel, rel_dict) ==
    IF "mutual" \in DOMAIN rel
    THEN combinations2(split(rel.mutual))
    ELSE IF "active" \in DOMAIN rel /\ "passive" \in DOMAIN rel
         THEN LET srcs == rel.active
                  tars == rel.passive
              IN  SelectSeq(product(split(srcs), split(tars)),
                            LAMBDA st : <<st[2], st[1]>> \notin Keys(rel_dict))
         ELSE <<>>

\* One pass of the loop over relations: the assignments tmp_dict[key] = val
\* the k-th relation element makes.
RelAssignments(rel, k, rel_dict) ==
    IF "name" \notin DOMAIN rel
    THEN <<>>
    ELSE LET rel_type == convert_rel_type(rel.name)
             keys == RelKeys(rel, rel_dict)
         IN  [n \in DOMAIN keys |-> [k |-> k, key |-> keys[n], val |-> rel_type]]

\* Assignments, were the inverse of a directed pair also looked up among the
\* pairs the earlier relation elements of the same person stored.
RECURSIVE Assignments_ChecksStaged(_, _, _)
Assignments_ChecksStaged(relations, k, rel_dict) ==
    IF k > Len(relations) THEN <<>>
    ELSE LET own == RelAssignments(relations[k], k, rel_dict)
             staged == [n \in DOMAIN own |-> <<own[n].key, own[n].val>>]
         IN  own \o Assignments_ChecksStaged(relations, k + 1, rel_dict \o staged)

\* Assignments, were a nameless element to end the loop (break for continue).
RECURSIVE Assignments_StopsAtNameless(_, _, _)
Assignments_StopsAtNameless(relations, k, rel_dict) ==
    IF k > Len(relations) \/ "name" \notin DOMAIN relations[k] THEN <<>>
    ELSE RelAssignments(relations[k], k, rel_dict)
           \o Assignments_StopsAtNameless(relations, k + 1, rel_dict)

\* The loop over relations, from the k-th element on: every assignment to
\* tmp_dict in the order it is made.
RECURSIVE Assignments(_, _, _)
Assignments(relations, k, rel_dict) ==
    IF k > Len(relations) THEN <<>>
    ELSE RelAssignments(relations[k], k, rel_dict)
           \o Assignments(relations, k + 1, rel_dict)

\* tmp_dict after the assignments.
RECURSIVE Assigned(_, _)
Assigned(d, as) ==
    IF as = <<>> THEN d
    ELSE Assigned(SetItem(d, Head(as).key, Head(as).val), Tail(as))

\* handle_relations, were tmp_dict returned and not its union with rel_dict.
handle_relations_ReturnsStaged(person, rel_dict) ==
    LET relations == person.relations
    IN  IF relations = <<>>
        THEN rel_dict
        ELSE Assigned(<<>>, Assignments(relations, 1, rel_dict))

\* handle_relations, were tmp_dict returned for a person without relations.
handle_relations_ReturnsTmp(person, rel_dict) ==
    LET relations == person.relations
        tmp_dict == Assigned(<<>>, Assignments(relations, 1, rel_dict))
    IN  IF relations = <<>> THEN tmp_dict ELSE DictUnion(rel_dict, tmp_dict)

handle_relations(person, rel_dict) ==
    LET relations == person.relations
    IN  IF relations = <<>>
        THEN rel_dict
        ELSE LET tmp_dict == Assigned(<<>>, Assignments(relations, 1, rel_dict))
             IN  DictUnion(rel_dict, tmp_dict)

(***************************************************************************)
(* convertXML.                                                             *)
(***************************************************************************)
VARIABLES
    persons,     \* the person elements of the first listPerson, in order
    pc,          \* where convertXML is
    i,           \* position in persons of the loop
    agent_csv,   \* the rows written to the agents file
    rel_csv,     \* the rows written to the relationships file
    rel_dict,    \* the accumulated relationships
    arg_dict,    \* rel_dict as passed to the latest handle_relations call
    assigned,    \* every assignment to a tmp_dict so far, in order
    expr,        \* eval_to_str: the field whose expression is evaluated
    xml_output,  \* eval_to_str: what the expression evaluated to
    cell         \* eval_to_str: the string returned

vars == <<persons, pc, i, agent_csv, rel_csv, rel_dict, arg_dict, assigned,
          expr, xml_output, cell>>

AGT_HEADER == <<"XML ID">>
REL_FIELDS == <<"Source", "Target", "Relationship Type">>

\* What csv writes for a value: None is written as the empty string.
CsvField(val) == IF val = None THEN <<>> ELSE val

\* The row of the agents file of a person.  Of the columns of AGT_MAP the
\* XML ID column is kept: it tells whose row it is.
person_row(person) == <<person.id>>

\* The rows of the relationships file.
rel_rows(d) == [n \in DOMAIN d |-> <<d[n][1][1], d[n][1][2], CsvField(d[n][2])>>]

Init ==
    /\ persons \in {[k \in DOMAIN doc |-> [id |-> XmlIds[k], relations |-> doc[k]]] :
                      doc \in Documents}
    /\ pc = "open"
    /\ i = 1
    /\ agent_csv = <<>>
    /\ rel_csv = <<>>
    /\ rel_dict = <<>>
    /\ arg_dict = <<>>
    /\ assigned = <<>>
    /\ expr = "XML ID"
    /\ xml_output = NoneType
    /\ cell = None

\* LoopHead, were the loop to end one person early.
LoopHead_SkipsLast(k) == IF k < Len(persons) THEN "row" ELSE "rows"

\* The head of the loop over persons: the body, or what follows the loop.
LoopHead(k) == IF k <= Len(persons) THEN "row" ELSE "rows"

\* The two headers are written and rel_dict is created.
WriteHeaders ==
    /\ pc = "open"
    /\ agent_csv' = Append(agent_csv, AGT_HEADER)
    /\ rel_csv' = Append(rel_csv, REL_FIELDS)
    /\ rel_dict' = <<>>
    /\ pc' = LoopHead(i)
    /\ UNCHANGED <<persons, i, arg_dict, assigned, expr, xml_output, cell>>

\* The first statement of the loop body: the person's row is written.
WriteAgentRow ==
    /\ pc = "row"
    /\ agent_csv' = Append(agent_csv, person_row(persons[i]))
    /\ pc' = "relations"
    /\ UNCHANGED <<persons, i, rel_csv, rel_dict, arg_dict, assigned>>
    /\ UNCHANGED <<expr, xml_output, cell>>

\* The second statement of the loop body, and the step of the loop.
HandleRelations ==
    /\ pc = "relations"
    /\ rel_dict' = handle_relations(persons[i], rel_dict)
    /\ arg_dict' = rel_dict
    /\ assigned' = assigned \o
         [n \in DOMAIN Assignments(persons[i].relations, 1, rel_dict) |->
            [p |-> i,
             k |-> Assignments(persons[i].relations, 1, rel_dict)[n].k,
             key |-> Assignments(persons[i].relations, 1, rel_dict)[n].key,
             val |-> Assignments(persons[i].relations, 1, rel_dict)[n].val]]
    /\ i' = i + 1
    /\ pc' = LoopHead(i + 1)
    /\ UNCHANGED <<persons, agent_csv, rel_csv, expr, xml_output, cell>>

\* After the loop: rel_dict is written as rows.
WriteRelRows ==
    /\ pc = "rows"
    /\ rel_csv' = rel_csv \o rel_rows(rel_dict)
    /\ pc' = "done"
    /\ UNCHANGED <<persons, i, agent_csv, rel_dict, arg_dict, assigned>>
    /\ UNCHANGED <<expr, xml_output, cell>>

Next ==
    \/ WriteHeaders
    \/ WriteAgentRow
    \/ HandleRelations
    \/ WriteRelRows

Spec == Init /\ [][Next]_vars

(***************************************************************************)
(* eval_to_str on its own: one expression of AGT_MAP is evaluated for a    *)
(* person and turned into the string of its cell.                          *)
(***************************************************************************)
FieldInit ==
    /\ persons = <<>>
    /\ pc = "eval"
    /\ i = 1
    /\ agent_csv = <<>>
    /\ rel_csv = <<>>
    /\ rel_dict = <<>>
    /\ arg_dict = <<>>
    /\ assigned = <<>>
    /\ \E input \in FieldInputs : expr = input[1] /\ xml_output = input[2]
    /\ cell = None

EvalToStr ==
    /\ pc = "eval"
    /\ cell' = eval_to_str(expr, xml_output)
    /\ pc' = "cell"
    /\ UNCHANGED <<persons, i, agent_csv, rel_csv, rel_dict, arg_dict, assigned>>
    /\ UNCHANGED <<expr, xml_output>>

FieldNext == EvalToStr

FieldSpec == FieldInit /\ [][FieldNext]_vars

(***************************************************************************)
(* Vocabulary of the properties.                                           *)
(***************************************************************************)
\* handle_relations has returned at least once; persons[i - 1] is the person
\* of the latest call, arg_dict its rel_dict argument, rel_dict its result.
Handled == i > 1
Latest == persons[i - 1]

\* The relation element an assignment comes from.
RelOf(e) == persons[e.p].relations[e.k]

IsMutual(rel) == "mutual" \in DOMAIN rel
IsDirected(rel) ==
    "mutual" \notin DOMAIN rel /\ "active" \in DOMAIN rel /\ "passive" \in DOMAIN rel
HasName(rel) == "name" \in DOMAIN rel

Reverse(key) == <<key[2], key[1]>>
Elems(xs) == {xs[n] : n \in DOMAIN xs}

\* The keys the k-th relation element of the p-th person assigned, in order.
KeysAssignedBy(p, k) ==
    LET own == SelectSeq(assigned, LAMBDA e : e.p = p /\ e.k = k)
    IN  [n \in DOMAIN own |-> own[n].key]

\* The keys of a sequence of assignments, each at its first occurrence.
RECURSIVE FirstRecorded(_, _)
FirstRecorded(as, seen) ==
    IF as = <<>> THEN <<>>
    ELSE IF Head(as).key \in seen
         THEN FirstRecorded(Tail(as), seen)
         ELSE <<Head(as).key>> \o FirstRecorded(Tail(as), seen \cup {Head(as).key})

\* rel_dict after the first k persons, taken in document order.
RECURSIVE Walk(_)
Walk(k) == IF k = 0 THEN <<>> ELSE handle_relations(persons[k], Walk(k - 1))

\* The data rows of a file: the rows after the header.
DataRows(csv) == IF csv = <<>> THEN <<>> ELSE Tail(csv)

(***************************************************************************)
(* C1.  A relation named "dummy" never produces a record: no pair of the   *)
(* accumulated map was assigned by a "dummy" relation, mutual or directed. *)
(***************************************************************************)
C1_DummyNeverRecorded ==
    \A n \in DOMAIN assigned :
        RelOf(assigned[n]).name = n_dummy => assigned[n].key \notin Keys(rel_dict)

(***************************************************************************)
(* C2.  Every pair a directed (active/passive) relation records has its    *)
(* source among the passive participants and its target among the active   *)
(* participants.  ("dummy" relations, which C1 is about, are left aside.)   *)
(***************************************************************************)
C2_PassiveIsSource ==
    \A n \in DOMAIN assigned :
        LET rel == RelOf(assigned[n])
        IN  (IsDirected(rel) /\ rel.name # n_dummy) =>
              /\ assigned[n].key[1] \in Elems(split(rel.passive))
              /\ assigned[n].key[2] \in Elems(split(rel.active))

(***************************************************************************)
(* C3.  Two identifiers related by mutual relations have at most one       *)
(* record: the accumulated map never holds both (a,b) and (b,a) from       *)
(* mutual relations.  (Left aside: "dummy" relations, which C1 is about,    *)
(* and the pairs of one relation element, which C5 is about.)              *)
(***************************************************************************)
C3_MutualOneDirection ==
    \A m, n \in DOMAIN assigned :
        (/\ IsMutual(RelOf(assigned[m])) /\ RelOf(assigned[m]).name # n_dummy
         /\ IsMutual(RelOf(assigned[n])) /\ RelOf(assigned[n]).name # n_dummy
         /\ <<assigned[m].p, assigned[m].k>> # <<assigned[n].p, assigned[n].k>>
         /\ assigned[m].key[1] # assigned[m].key[2]
         /\ assigned[n].key = Reverse(assigned[m].key))
        => ~ ({assigned[m].key, assigned[n].key} \subseteq Keys(rel_dict))

(***************************************************************************)
(* C4.  A directed relation does not add (a,b) when (b,a) is a key of the  *)
(* map passed into the call: no assignment of a directed relation of the   *)
(* latest call has its inverse in the argument, and when the person has    *)
(* only directed relations no key new in the result has its inverse there. *)
(***************************************************************************)
C4_InverseNotAdded ==
    Handled =>
      /\ \A n \in DOMAIN assigned :
            (assigned[n].p = i - 1 /\ IsDirected(RelOf(assigned[n])))
            => Reverse(assigned[n].key) \notin Keys(arg_dict)
      /\ (\A k \in DOMAIN Latest.relations : ~ IsMutual(Latest.relations[k]))
            => \A key \in Keys(rel_dict) \ Keys(arg_dict) :
                  Reverse(key) \notin Keys(arg_dict)

\* A directed relation met a pair whose inverse was in the argument, and the
\* pair is not in the result.
C4_Witness ==
    /\ Handled
    /\ \E k \in DOMAIN Latest.relations :
          LET rel == Latest.relations[k]
          IN  /\ HasName(rel) /\ IsDirected(rel)
              /\ \E st \in Elems(product(split(rel.active), split(rel.passive))) :
                    /\ Reverse(st) \in Keys(arg_dict)
                    /\ st \notin Keys(rel_dict)

(***************************************************************************)
(* C5.  A mutual relation with participants x1..xn records exactly the     *)
(* pairs (xi, xj), i < j, in list order: each unordered pair once, never   *)
(* an inverse and never a self-pair.                                       *)
(***************************************************************************)
C5_MutualPairs ==
    \A p \in 1..(i - 1) : \A k \in DOMAIN persons[p].relations :
        LET rel == persons[p].relations[k]
            xs == split(rel.mutual)
            L == Len(xs)
            ks == KeysAssignedBy(p, k)
        IN  (HasName(rel) /\ IsMutual(rel)) =>
              /\ Len(ks) = (L * (L - 1)) \div 2
              /\ \A a, b \in 1..L :
                    a < b => ks[(a - 1) * L - ((a * (a - 1)) \div 2) + (b - a)]
                               = <<xs[a], xs[b]>>
              /\ \A m, n \in DOMAIN ks : m # n => ks[m] # ks[n]
              /\ \A m, n \in DOMAIN ks : ks[m] # Reverse(ks[n])

(***************************************************************************)
(* C6.  The identifiers recorded as source and target are bare: the prefix *)
(* marker of the attribute values is stripped, so that a recorded id is an *)
(* xml:id.                                                                 *)
(***************************************************************************)
C6_IdsAreBare ==
    \A key \in Keys(rel_dict) : \A c \in 1..2 : \A n \in DOMAIN key[c] :
        key[c][n] # "#"

(***************************************************************************)
(* C7.  For a person with no relation element, handle_relations returns    *)
(* the map it was given: same keys, same labels, same order.               *)
(***************************************************************************)
C7_NoRelationsIdentity ==
    (Handled /\ Latest.relations = <<>>) => rel_dict = arg_dict

\* A person with no relation element was handled with a map of several
\* entries.
C7_Witness ==
    /\ Handled
    /\ Latest.relations = <<>>
    /\ Len(arg_dict) >= 2
    /\ rel_dict = arg_dict

(***************************************************************************)
(* C8.  Persons are processed in document order, a person's row is written *)
(* before that person's relations are handled, and no relationship row is  *)
(* written before every person was handled.                                *)
(***************************************************************************)
C8_DocumentOrder ==
    /\ i \in 1..(Len(persons) + 1)
    /\ pc \in {"row", "relations"} => i <= Len(persons)
    /\ DataRows(agent_csv) =
          [k \in 1..(IF pc = "relations" THEN i ELSE i - 1) |-> person_row(persons[k])]
    /\ rel_dict = Walk(i - 1)
    /\ DataRows(rel_csv) # <<>> => (pc = "done" /\ i = Len(persons) + 1)
    /\ pc \in {"rows", "done"} => i = Len(persons) + 1

\* The walk of a document of several persons has ended with relationship
\* rows written.
C8_Witness ==
    /\ pc = "done"
    /\ Len(persons) >= 2
    /\ DataRows(rel_csv) # <<>>
    /\ Len(agent_csv) = Len(persons) + 1

(***************************************************************************)
(* C9.  The relationships file holds one data row per pair of the final    *)
(* map, no pair twice, in the order in which the pairs were first          *)
(* recorded during the walk.                                               *)
(***************************************************************************)
C9_RowsInAccumulationOrder ==
    pc = "done" =>
      LET rows == DataRows(rel_csv)
      IN  /\ Len(rows) = Cardinality(Keys(rel_dict))
          /\ [n \in DOMAIN rows |-> <<rows[n][1], rows[n][2]>>]
                = FirstRecorded(assigned, {})
          /\ \A m, n \in DOMAIN rows :
                m # n => <<rows[m][1], rows[m][2]>> # <<rows[n][1], rows[n][2]>>
          /\ \A n \in DOMAIN rows :
                rows[n][3] = CsvField(Get(rel_dict, <<rows[n][1], rows[n][2]>>))

\* The walk has ended, and a pair was assigned again after another pair was
\* first recorded.
C9_Witness ==
    /\ pc = "done"
    /\ \E l, m, n \in DOMAIN assigned :
          /\ l < m /\ m < n
          /\ assigned[l].key = assigned[n].key
          /\ assigned[m].key # assigned[l].key
          /\ \A h \in 1..(m - 1) : assigned[h].key # assigned[m].key
    /\ Len(DataRows(rel_csv)) >= 2

(***************************************************************************)
(* C10.  A relation element without a name attribute is skipped: it        *)
(* assigns nothing, and the result of the call is the result for the same  *)
(* person without the nameless elements, the others being processed.       *)
(***************************************************************************)
C10_NamelessSkipped ==
    /\ \A n \in DOMAIN assigned : HasName(RelOf(assigned[n]))
    /\ Handled =>
          rel_dict = handle_relations(
                        [Latest EXCEPT !.relations = SelectSeq(Latest.relations, HasName)],
                        arg_dict)

\* A person had a nameless relation element followed by one that assigned
\* a pair, which is in the result.
C10_Witness ==
    /\ Handled
    /\ \E k, l \in DOMAIN Latest.relations :
          /\ k < l
          /\ ~ HasName(Latest.relations[k])
          /\ \E n \in DOMAIN assigned :
                /\ assigned[n].p = i - 1 /\ assigned[n].k = l
                /\ assigned[n].key \in Keys(rel_dict) \ Keys(arg_dict)

(***************************************************************************)
(* C11.  The label of a pair is derived from the name of its relation      *)
(* alone: "1stCousin" gives "isCousinOf", and another name X other than    *)
(* "dummy" gives "is" + X title-cased + "Of" ("sibling": "isSiblingOf").   *)
(***************************************************************************)
l_isCousinOf == <<"i", "s", "C", "o", "u", "s", "i", "n", "O", "f">>
l_isSiblingOf == <<"i", "s", "S", "i", "b", "l", "i", "n", "g", "O", "f">>
l_isHalfsiblingOf == <<"i", "s", "H", "a", "l", "f", "s", "i", "b", "l", "i", "n", "g", "O", "f">>

C11_LabelFromName ==
    /\ \A n \in DOMAIN assigned :
          LET name == RelOf(assigned[n]).name
          IN  /\ name = n_1stCousin => assigned[n].val = l_isCousinOf
              /\ name = n_sibling => assigned[n].val = l_isSiblingOf
              /\ name = n_halfSibling => assigned[n].val = l_isHalfsiblingOf
    /\ \A n \in DOMAIN rel_dict :
          \E m \in DOMAIN assigned :
              assigned[m].key = rel_dict[n][1] /\ assigned[m].val = rel_dict[n][2]

\* The map holds a pair of a "1stCousin" relation and a pair of a relation
\* of another name, each under its label.
C11_Witness ==
    /\ \E n \in DOMAIN rel_dict : rel_dict[n][2] = l_isCousinOf
    /\ \E n \in DOMAIN rel_dict : rel_dict[n][2] \in {l_isSiblingOf, l_isHalfsiblingOf}
    /\ \E m, n \in DOMAIN assigned :
          /\ RelOf(assigned[m]).name = n_1stCousin
          /\ RelOf(assigned[n]).name \in {n_sibling, n_halfSibling}

(***************************************************************************)
(* C12.  handle_date returns the value of the when attribute as it is      *)
(* whenever the attribute is present, whatever bounds come with it;        *)
(* otherwise, with at least one of notBefore and notAfter, the range token *)
(* with TPQ = notBefore or empty and TAQ = notAfter or empty; otherwise    *)
(* the empty string.                                                       *)
(***************************************************************************)
Bound(att, a) == IF a \in DOMAIN att THEN att[a] ELSE <<>>

l_from1800 == <<"[", " ", "|", "V", "E", "R", "=", "1", "|", "T", "Y", "P", "=", "p", "|", "T", "P", "Q", "=", "1", "8", "0", "0", "|", "T", "A", "Q", "=", "|", "D", "E", "T", "=", "0", "|", "C", "L", "D", "=", "G", "r", "e", "g", "o", "r", "i", "a", "n", "|", "S", "P", "F", "=", "0", "|", "E", "P", "F", "=", "0", " ", "]">>

C12_DateNormalized ==
    (pc = "cell" /\ xml_output.type = "Element") =>
      LET att == xml_output.node.attrib
          bounded == "notBefore" \in DOMAIN att \/ "notAfter" \in DOMAIN att
      IN  /\ "when" \in DOMAIN att => cell = att["when"]
          /\ ("when" \notin DOMAIN att /\ bounded) =>
                cell = TOKEN_HEAD \o Bound(att, "notBefore") \o TOKEN_MID
                         \o Bound(att, "notAfter") \o TOKEN_TAIL
          /\ ("when" \notin DOMAIN att /\ DOMAIN att = {"notBefore"}
                /\ att["notBefore"] = d_1800) => cell = l_from1800
          /\ ("when" \notin DOMAIN att /\ ~ bounded) => cell = <<>>

\* A date with the when attribute and both bounds gave the value of when.
C12_Witness ==
    /\ pc = "cell"
    /\ xml_output.type = "Element"
    /\ DOMAIN xml_output.node.attrib = {"when", "notBefore", "notAfter"}
    /\ xml_output.node.attrib["when"] # xml_output.node.attrib["notBefore"]
    /\ cell = xml_output.node.attrib["when"]

(***************************************************************************)
(* C13.  For every note that survives the filter, the text handle_note     *)
(* emits holds the note's own text and none of the text of its child       *)
(* elements: the cell is what handle_note gives for the same notes with    *)
(* the text of every child element taken out.                              *)
(***************************************************************************)
WithoutChildText(note) ==
    [note EXCEPT !.children =
        [n \in DOMAIN note.children |-> [text |-> None, tail |-> note.children[n].tail]]]

C13_OwnTextOnly ==
    (pc = "cell" /\ expr = "Research Notes") =>
      cell = handle_note([n \in DOMAIN xml_output.items |->
                            WithoutChildText(xml_output.items[n])])

(***************************************************************************)
(* C14.  The inverse of a directed pair is looked up in the map as it was  *)
(* when the call started, never among the pairs staged in the same call:   *)
(* a directed relation with a name records every pair of its product whose *)
(* inverse is not in the argument, so that when one person's relations     *)
(* yield (a,b) and (b,a) and neither is in the argument, both are in the   *)
(* result.                                                                 *)
(***************************************************************************)
C14_StagedNotConsulted ==
    Handled =>
      \A k \in DOMAIN Latest.relations :
          LET rel == Latest.relations[k]
          IN  (HasName(rel) /\ IsDirected(rel)) =>
                \A st \in Elems(product(split(rel.active), split(rel.passive))) :
                    Reverse(st) \notin Keys(arg_dict) => st \in Keys(rel_dict)

\* Two directed relations of one person assigned a pair and its inverse,
\* neither was in the argument, and both are in the result.
C14_Witness ==
    /\ Handled
    /\ \E m, n \in DOMAIN assigned :
          /\ assigned[m].p = i - 1 /\ assigned[n].p = i - 1
          /\ assigned[m].k < assigned[n].k
          /\ IsDirected(RelOf(assigned[m])) /\ IsDirected(RelOf(assigned[n]))
          /\ assigned[m].key[1] # assigned[m].key[2]
          /\ assigned[n].key = Reverse(assigned[m].key)
          /\ {assigned[m].key, assigned[n].key} \cap Keys(arg_dict) = {}
          /\ {assigned[m].key, assigned[n].key} \subseteq Keys(rel_dict)

(***************************************************************************)
(* C15.  The merge of tmp_dict into the map: a staged pair that is a key   *)
(* of the argument gets the staged label, there is one entry per pair, and *)
(* every other entry of the argument keeps its label.                      *)
(***************************************************************************)
\* The assignments of the latest call.
LatestAssigned == SelectSeq(assigned, LAMBDA e : e.p = i - 1)

\* The label the latest call staged last for a key.
StagedLabel(key) ==
    LET own == SelectSeq(LatestAssigned, LAMBDA e : e.key = key)
    IN  own[Len(own)].val

C15_MergeOverwrites ==
    Handled =>
      /\ Cardinality(Keys(rel_dict)) = Len(rel_dict)
      /\ \A key \in Keys(arg_dict) :
            /\ key \in Keys(rel_dict)
            /\ Get(rel_dict, key) =
                  IF \E n \in DOMAIN LatestAssigned : LatestAssigned[n].key = key
                  THEN StagedLabel(key)
                  ELSE Get(arg_dict, key)

\* A staged pair was a key of the argument under another label, and
\* another entry of the argument was not staged.
C15_Witness ==
    /\ Handled
    /\ \E key \in Keys(arg_dict) :
          /\ \E n \in DOMAIN LatestAssigned : LatestAssigned[n].key = key
          /\ StagedLabel(key) # Get(arg_dict, key)
          /\ Get(rel_dict, key) = StagedLabel(key)
    /\ \E key \in Keys(arg_dict) :
          /\ \A n \in DOMAIN LatestAssigned : LatestAssigned[n].key # key
          /\ Get(rel_dict, key) = Get(arg_dict, key)

(***************************************************************************)
(* C16.  The pairs of the map only grow: a key of the map before a call of *)
(* handle_relations is a key of the map after it.                          *)
(***************************************************************************)
C16_KeysOnlyGrow ==
    Handled => Keys(arg_dict) \subseteq Keys(rel_dict)

\* A call with a map of several pairs returned a map with more pairs.
C16_Witness ==
    /\ Handled
    /\ Len(arg_dict) >= 2
    /\ Keys(arg_dict) \subseteq Keys(rel_dict)
    /\ Keys(rel_dict) # Keys(arg_dict)

====
